---- MODULE Spec2Model ----
(***************************************************************************)
(* Model of scripts/normalize_terms.py: the term normaliser for auto-loan  *)
(* rate records.  The module is a set of pure functions; the model is a    *)
(* caller that holds a short script of calls, makes them one after another *)
(* and records, for the last call, the function, its arguments and its     *)
(* outcome (a returned value or a raised exception).  Dictionaries live in *)
(* a heap of objects so that copying and aliasing are visible.             *)
(***************************************************************************)
EXTENDS Integers, Sequences, FiniteSets, TLC

VARIABLES
    pending, \* the calls the caller is still going to make, in order
    fn,      \* name of the function invoked last ("" before any call)
    args,    \* its arguments, a tuple
    ret,     \* <<v>> when it returned v, <<>> when it returned nothing
    exc,     \* <<e>> when it raised e, <<>> otherwise
    prev,    \* <<c>>: the call made before the last one, <<>> if none
    heap     \* the dictionaries allocated so far; a reference is an index

vars == <<pending, fn, args, ret, exc, prev, heap>>

(***************************************************************************)
(* Bounds of the model.                                                    *)
(***************************************************************************)
MaxNegative == 3       \* terms a caller passes reach down to -MaxNegative
MaxTerm == 97          \* largest term a caller passes (above 84 + 12)
RecordStride == 6      \* record term fields are sampled every RecordStride

MinTerm == -MaxNegative

Terms == MinTerm..MaxTerm

(***************************************************************************)
(* Outcomes of a call and Python's ValueError.                             *)
(***************************************************************************)
Return(v) == [ret |-> <<v>>, exc |-> <<>>]

Raise(e) == [ret |-> <<>>, exc |-> <<e>>]

ValueError(msg) == [type |-> "ValueError", msg |-> msg]

(***************************************************************************)
(* Built-ins: abs, min, and the f-string conversion of an integer.         *)
(***************************************************************************)
absNoSign(x) == x

abs(x) == IF x < 0 THEN -x ELSE x

maxOf(a, b) == IF a > b THEN a ELSE b

min(a, b) == IF a < b THEN a ELSE b

str(n) == ToString(n)

(***************************************************************************)
(* INDUSTRY_STANDARD_TERMS = [36, 48, 60, 72, 84]                          *)
(***************************************************************************)
INDUSTRY_STANDARD_TERMS == <<36, 48, 60, 72, 84>>

(***************************************************************************)
(* normalize_term_to_standard                                              *)
(***************************************************************************)
ZeroTermLast == INDUSTRY_STANDARD_TERMS[Len(INDUSTRY_STANDARD_TERMS)]

\* term == 0 returns INDUSTRY_STANDARD_TERMS[0] (Python indexes from 0)
ZeroTerm == INDUSTRY_STANDARD_TERMS[1]

TermIsInvalidBelowMinusOne(term) == term < -1

\* the guard of the raise: term < 0
TermIsInvalid(term) == term < 0

InvalidTermError(term) ==
    ValueError("Invalid term: " \o str(term)
               \o ". Term must be a non-negative number.")

\* the body of the for loop, from the i-th standard term on; the result is
\* the value of nearest_term when the loop ends
RECURSIVE ScanStandardTerms(_, _, _, _)
ScanStandardTerms(term, i, nearest_term, min_distance) ==
    IF i > Len(INDUSTRY_STANDARD_TERMS) THEN nearest_term
    ELSE LET standard_term == INDUSTRY_STANDARD_TERMS[i]
             distance == abs(term - standard_term)
         IN  IF distance < min_distance
             THEN ScanStandardTerms(term, i + 1, standard_term, distance)
             ELSE IF distance = min_distance
             THEN ScanStandardTerms(term, i + 1,
                                    min(nearest_term, standard_term),
                                    min_distance)
             ELSE ScanStandardTerms(term, i + 1, nearest_term, min_distance)

normalize_term_to_standard(term) ==
    IF term = 0 THEN Return(ZeroTerm)
    ELSE IF TermIsInvalid(term) THEN Raise(InvalidTermError(term))
    ELSE LET nearest_term == INDUSTRY_STANDARD_TERMS[1]
             min_distance == abs(term - nearest_term)
         IN  Return(ScanStandardTerms(term, 1, nearest_term, min_distance))

(***************************************************************************)
(* is_standard_term                                                        *)
(***************************************************************************)
is_standard_term(term) ==
    \E i \in 1..Len(INDUSTRY_STANDARD_TERMS) : INDUSTRY_STANDARD_TERMS[i] = term

(***************************************************************************)
(* get_term_normalization_info                                             *)
(***************************************************************************)
WasModifiedByDistance(term, normalized) == term - normalized > 0

WasModified(term, normalized) == term /= normalized

get_term_normalization_info(term) ==
    LET called == normalize_term_to_standard(term)
    IN  IF called.exc /= <<>> THEN called
        ELSE LET normalized == called.ret[1]
             IN  Return([original |-> term,
                         normalized |-> normalized,
                         distance |-> abs(term - normalized),
                         wasModified |-> WasModified(term, normalized)])

(***************************************************************************)
(* normalize_term_range                                                    *)
(***************************************************************************)
RangeIsInvalidOrEqual(term_min, term_max) == term_min >= term_max

\* the guard of the raise: term_min > term_max
RangeIsInvalid(term_min, term_max) == term_min > term_max

InvalidRangeError(term_min, term_max) ==
    ValueError("Invalid range: min (" \o str(term_min)
               \o ") > max (" \o str(term_max) \o ")")

\* the elements of the returned tuple are evaluated left to right, so an
\* exception of the first call wins over one of the second
normalize_term_range(term_min, term_max) ==
    IF RangeIsInvalid(term_min, term_max)
    THEN Raise(InvalidRangeError(term_min, term_max))
    ELSE LET first == normalize_term_to_standard(term_min)
             second == normalize_term_to_standard(term_max)
         IN  IF first.exc /= <<>> THEN first
             ELSE IF second.exc /= <<>> THEN second
             ELSE Return(<<first.ret[1], second.ret[1]>>)

(***************************************************************************)
(* Dictionaries: a dict is a function from its keys to their values.       *)
(***************************************************************************)
EmptyDict == <<>>

\* d[k] = v
SetItem(d, k, v) == [x \in DOMAIN d \cup {k} |-> IF x = k THEN v ELSE d[x]]

copyAlias(h, ref) == [heap |-> h, ref |-> ref]

\* d.copy(): a new object with the same items; yields the heap after the
\* allocation and the reference of the new object
copy(h, ref) == [heap |-> Append(h, h[ref]), ref |-> Len(h) + 1]

(***************************************************************************)
(* normalize_rate_terms                                                    *)
(***************************************************************************)
MissingTermError ==
    ValueError("Rate data must include either termMonths or termMin/termMax")

HasTermRange(rate_data) ==
    "termMin" \in DOMAIN rate_data /\ "termMax" \in DOMAIN rate_data

TermBoundsRangeFirst(rate_data) ==
    IF HasTermRange(rate_data)
    THEN normalize_term_range(rate_data["termMin"], rate_data["termMax"])
    ELSE IF "termMonths" \in DOMAIN rate_data
    THEN LET called == normalize_term_to_standard(rate_data["termMonths"])
         IN  IF called.exc /= <<>> THEN called
             ELSE Return(<<called.ret[1], called.ret[1]>>)
    ELSE Raise(MissingTermError)

\* the if / elif / else that yields (term_min, term_max) or raises
TermBounds(rate_data) ==
    IF "termMonths" \in DOMAIN rate_data
    THEN LET called == normalize_term_to_standard(rate_data["termMonths"])
         IN  IF called.exc /= <<>> THEN called
             ELSE Return(<<called.ret[1], called.ret[1]>>)
    ELSE IF HasTermRange(rate_data)
    THEN normalize_term_range(rate_data["termMin"], rate_data["termMax"])
    ELSE Raise(MissingTermError)

TermLabelAlwaysRange(term_min, term_max) ==
    str(term_min) \o "-" \o str(term_max) \o " Months"

\* the f-string expression assigned to result['term_label']
TermLabel(term_min, term_max) ==
    IF term_min = term_max
    THEN str(term_min) \o " Months"
    ELSE str(term_min) \o "-" \o str(term_max) \o " Months"

\* yields the outcome and the heap the call leaves; the copy made by a call
\* that raises is unreachable afterwards and is dropped
normalize_rate_terms(h, rate_data) ==
    LET copied == copy(h, rate_data)
        result == copied.ref
        bounds == TermBounds(h[rate_data])
    IN  IF bounds.exc /= <<>>
        THEN [out |-> bounds, heap |-> h]
        ELSE LET term_min == bounds.ret[1][1]
                 term_max == bounds.ret[1][2]
                 h1 == [copied.heap EXCEPT
                          ![result] = SetItem(@, "term_range_min", term_min)]
                 h2 == [h1 EXCEPT
                          ![result] = SetItem(@, "term_range_max", term_max)]
                 h3 == [h2 EXCEPT
                          ![result] = SetItem(@, "term_label",
                                              TermLabel(term_min, term_max))]
             IN  [out |-> Return(result), heap |-> h3]

(***************************************************************************)
(* The caller.                                                             *)
(***************************************************************************)
Call(f, a) == [fn |-> f, args |-> a]

\* the last call, as the record kept in prev
LastCall == [fn |-> fn, args |-> args, ret |-> ret, exc |-> exc]

\* the terms a rate record carries: MinTerm and every RecordStride-th month
RecordTerms == {t \in Terms : t = MinTerm \/ t % RecordStride = 0}

Optional(S) == {<<>>} \cup {<<v>> : v \in S}

SetOptional(d, k, o) == IF o = <<>> THEN d ELSE SetItem(d, k, o[1])

\* the rate records a scraper hands over: any combination of the three term
\* fields, an opaque apr, and possibly stale values under the output keys
RateRecords ==
    { LET d1 == SetOptional(EmptyDict, "termMonths", tm)
          d2 == SetOptional(d1, "termMin", tmin)
          d3 == SetOptional(d2, "termMax", tmax)
          d4 == SetOptional(d3, "apr", apr)
          d5 == SetOptional(d4, "term_label", stale)
      IN  IF stale = <<>> THEN d5
          ELSE SetItem(SetItem(d5, "term_range_min", 0), "term_range_max", 0)
      : tm \in Optional(RecordTerms), tmin \in Optional(RecordTerms),
        tmax \in Optional(RecordTerms), apr \in Optional({"4.29"}),
        stale \in Optional({"stale"}) }

\* two normalisations in a row, or one call of another term function
TermScripts ==
    { <<Call("normalize_term_to_standard", <<a>>),
        Call("normalize_term_to_standard", <<b>>)>> : a \in Terms, b \in Terms }
    \cup { <<Call("is_standard_term", <<t>>)>> : t \in Terms }
    \cup { <<Call("get_term_normalization_info", <<t>>)>> : t \in Terms }
    \cup { <<Call("normalize_term_range", <<a, b>>)>> : a \in Terms, b \in Terms }

Init ==
    /\ fn = ""
    /\ args = <<>>
    /\ ret = <<>>
    /\ exc = <<>>
    /\ prev = <<>>
    /\ \/ /\ pending \in TermScripts
          /\ heap = <<>>
       \/ /\ pending = <<Call("normalize_rate_terms", <<1>>)>>
          /\ heap \in {<<d>> : d \in RateRecords}

\* the bookkeeping every call shares
Called(f, out) ==
    /\ pending /= <<>>
    /\ Head(pending).fn = f
    /\ pending' = Tail(pending)
    /\ fn' = f
    /\ args' = Head(pending).args
    /\ ret' = out.ret
    /\ exc' = out.exc
    /\ prev' = IF fn = "" THEN <<>> ELSE <<LastCall>>

NextArgs == IF pending = <<>> THEN <<0, 0>> ELSE Head(pending).args

CallNormalizeTerm ==
    /\ Called("normalize_term_to_standard",
              normalize_term_to_standard(NextArgs[1]))
    /\ UNCHANGED heap

CallNormalizeRange ==
    /\ Called("normalize_term_range",
              normalize_term_range(NextArgs[1], NextArgs[2]))
    /\ UNCHANGED heap

CallIsStandardTerm ==
    /\ Called("is_standard_term", Return(is_standard_term(NextArgs[1])))
    /\ UNCHANGED heap

CallGetTermNormalizationInfo ==
    /\ Called("get_term_normalization_info",
              get_term_normalization_info(NextArgs[1]))
    /\ UNCHANGED heap

CallNormalizeRateTerms ==
    /\ pending /= <<>>
    /\ Head(pending).fn = "normalize_rate_terms"
    /\ LET done == normalize_rate_terms(heap, NextArgs[1])
       IN  /\ Called("normalize_rate_terms", done.out)
           /\ heap' = done.heap

Next ==
    \/ CallNormalizeTerm
    \/ CallNormalizeRange
    \/ CallIsStandardTerm
    \/ CallGetTermNormalizationInfo
    \/ CallNormalizeRateTerms

Spec == Init /\ [][Next]_vars

(***************************************************************************)
(* Vocabulary of the properties, independent of the operators above.       *)
(***************************************************************************)
StandardSet == {36, 48, 60, 72, 84}

Dist(a, b) == IF a < b THEN b - a ELSE a - b

\* the standard terms at the global minimum distance from t
NearestCandidates(t) ==
    {s \in StandardSet : \A u \in StandardSet : Dist(t, s) <= Dist(t, u)}

\* the smallest of them
Nearest(t) ==
    CHOOSE s \in NearestCandidates(t) : \A u \in NearestCandidates(t) : s <= u

OutputKeys == {"term_range_min", "term_range_max", "term_label"}

Returned == ret /= <<>> /\ exc = <<>>

Raised == ret = <<>> /\ exc /= <<>>

\* the failure of a negative term, and of an inverted range
RaisedInvalidTerm(t) ==
    /\ Raised
    /\ exc[1].type = "ValueError"
    /\ exc[1].msg = "Invalid term: " \o ToString(t)
                    \o ". Term must be a non-negative number."

RaisedInvalidRange(a, b) ==
    /\ Raised
    /\ exc[1].type = "ValueError"
    /\ exc[1].msg = "Invalid range: min (" \o ToString(a)
                    \o ") > max (" \o ToString(b) \o ")"

RaisedMissingField ==
    /\ Raised
    /\ exc[1].type = "ValueError"
    /\ exc[1].msg
         = "Rate data must include either termMonths or termMin/termMax"

(***************************************************************************)
(* C1: for every term t >= 0, normalize_term_to_standard(t) returns the    *)
(* smallest of the standard terms whose distance to t is the global        *)
(* minimum, so a tie between two candidates goes to the smaller one.       *)
(***************************************************************************)
C1_NearestSmallestOnTie ==
    (fn = "normalize_term_to_standard" /\ args[1] >= 0)
        => ret = <<Nearest(args[1])>>

C1_Witness ==
    /\ fn = "normalize_term_to_standard"
    /\ args[1] >= 0
    /\ Cardinality(NearestCandidates(args[1])) = 2
    /\ Returned
    /\ \E s \in NearestCandidates(args[1]) : s > ret[1]

(***************************************************************************)
(* C2: normalize_term_to_standard is monotonic non-decreasing on           *)
(* non-negative terms: of two calls with 0 <= a <= b, both return and the  *)
(* result for a is at most the result for b.                               *)
(***************************************************************************)
C2_Monotonic ==
    (/\ fn = "normalize_term_to_standard"
     /\ prev /= <<>>
     /\ prev[1].fn = "normalize_term_to_standard"
     /\ 0 <= prev[1].args[1]
     /\ prev[1].args[1] <= args[1])
        => /\ prev[1].ret /= <<>>
           /\ Returned
           /\ prev[1].ret[1] <= ret[1]

C2_Witness ==
    /\ fn = "normalize_term_to_standard"
    /\ prev /= <<>>
    /\ prev[1].fn = "normalize_term_to_standard"
    /\ prev[1].args[1] = 0
    /\ args[1] > 84
    /\ prev[1].ret /= <<>>
    /\ Returned
    /\ prev[1].ret[1] < ret[1]

(***************************************************************************)
(* C3: for every term t >= 0 the result of normalize_term_to_standard is a *)
(* standard term, every standard term is returned unchanged, and           *)
(* normalising a result again returns that result.                         *)
(***************************************************************************)
C3_Idempotent ==
    (fn = "normalize_term_to_standard" /\ args[1] >= 0)
        => /\ Returned
           /\ ret[1] \in StandardSet
           /\ (args[1] \in StandardSet => ret[1] = args[1])
           /\ (/\ prev /= <<>>
               /\ prev[1].fn = "normalize_term_to_standard"
               /\ prev[1].ret = <<args[1]>>) => ret = prev[1].ret

C3_Witness ==
    /\ fn = "normalize_term_to_standard"
    /\ prev /= <<>>
    /\ prev[1].fn = "normalize_term_to_standard"
    /\ prev[1].args[1] \notin StandardSet
    /\ prev[1].ret = <<args[1]>>
    /\ ret = <<args[1]>>

(***************************************************************************)
(* C4: normalize_term_to_standard(t) and get_term_normalization_info(t)    *)
(* raise the invalid-term error exactly when t < 0 and return nothing      *)
(* then; for t >= 0 they return, and normalising 0 gives 36.               *)
(***************************************************************************)
C4_NegativeTermRejected ==
    (fn \in {"normalize_term_to_standard", "get_term_normalization_info"})
        => /\ (args[1] < 0 => RaisedInvalidTerm(args[1]))
           /\ (args[1] >= 0 => Returned)
           /\ (fn = "normalize_term_to_standard" /\ args[1] = 0)
                 => ret = <<36>>
           /\ (fn = "get_term_normalization_info" /\ args[1] = 0)
                 => ret[1].normalized = 36

C4_Witness ==
    /\ fn = "get_term_normalization_info"
    /\ args[1] < 0
    /\ RaisedInvalidTerm(args[1])

(***************************************************************************)
(* C5: normalize_term_range(term_min, term_max) raises the invalid-range   *)
(* error whenever term_min > term_max; whenever 0 <= term_min <= term_max  *)
(* (equal values included) it returns the pair of the two normalised ends, *)
(* and the first element of that pair is at most the second.               *)
(***************************************************************************)
C5_RangeNormalised ==
    (fn = "normalize_term_range")
        => /\ (args[1] > args[2] => RaisedInvalidRange(args[1], args[2]))
           /\ (0 <= args[1] /\ args[1] <= args[2])
                 => /\ ret = << <<Nearest(args[1]), Nearest(args[2])>> >>
                    /\ exc = <<>>
                    /\ ret[1][1] <= ret[1][2]

C5_Witness ==
    /\ fn = "normalize_term_range"
    /\ args[1] = args[2]
    /\ args[1] > 0
    /\ Returned
    /\ ret[1][1] = ret[1][2]

(***************************************************************************)
(* Vocabulary of the record properties.  The caller's record is the object *)
(* the call was given; a returned record is the object the call returned.  *)
(***************************************************************************)
RecordCall == fn = "normalize_rate_terms"

Input == heap[args[1]]

Output == heap[ret[1]]

HasMonths(d) == "termMonths" \in DOMAIN d

HasRange(d) == "termMin" \in DOMAIN d /\ "termMax" \in DOMAIN d

\* the term input the dispatch selects is invalid
InvalidMonths(d) == HasMonths(d) /\ d["termMonths"] < 0

InvertedRange(d) ==
    ~HasMonths(d) /\ HasRange(d) /\ d["termMin"] > d["termMax"]

NegativeRange(d) ==
    /\ ~HasMonths(d) /\ HasRange(d)
    /\ d["termMin"] <= d["termMax"]
    /\ d["termMin"] < 0

(***************************************************************************)
(* C6: normalize_rate_terms dispatches in a fixed order: with termMonths   *)
(* present both bounds are the normalised termMonths whatever termMin and  *)
(* termMax hold; else with both termMin and termMax present the bounds are *)
(* the normalised range; else the call raises the missing-field error.     *)
(***************************************************************************)
C6_DispatchOrder ==
    RecordCall =>
        /\ (HasMonths(Input) /\ Input["termMonths"] >= 0)
              => /\ Returned
                 /\ Output["term_range_min"] = Nearest(Input["termMonths"])
                 /\ Output["term_range_max"] = Nearest(Input["termMonths"])
        /\ (/\ ~HasMonths(Input) /\ HasRange(Input)
            /\ 0 <= Input["termMin"]
            /\ Input["termMin"] <= Input["termMax"])
              => /\ Returned
                 /\ Output["term_range_min"] = Nearest(Input["termMin"])
                 /\ Output["term_range_max"] = Nearest(Input["termMax"])
        /\ (~HasMonths(Input) /\ ~HasRange(Input)) => RaisedMissingField

C6_Witness ==
    /\ RecordCall
    /\ HasMonths(Input) /\ HasRange(Input)
    /\ Input["termMin"] > Input["termMax"]
    /\ Input["termMax"] < 0
    /\ Returned
    /\ Output["term_range_min"] = Nearest(Input["termMonths"])

(***************************************************************************)
(* C7: a call of normalize_rate_terms, returning or raising, leaves the    *)
(* caller's record with the keys and values it had; a returned record is a *)
(* different object that has the input's keys plus the three output keys   *)
(* and agrees with the input on every key other than those three.          *)
(***************************************************************************)
C7_InputNotMutated ==
    [][ (pending /= <<>> /\ Head(pending).fn = "normalize_rate_terms")
          => LET rate_data == Head(pending).args[1]
             IN  /\ heap'[rate_data] = heap[rate_data]
                 /\ ret' /= <<>>
                      => /\ ret'[1] /= rate_data
                         /\ DOMAIN heap'[ret'[1]]
                              = DOMAIN heap[rate_data] \cup OutputKeys
                         /\ \A k \in DOMAIN heap[rate_data] \ OutputKeys :
                              heap'[ret'[1]][k] = heap[rate_data][k] ]_vars

C7_Witness ==
    /\ RecordCall
    /\ Returned
    /\ ret[1] /= args[1]
    /\ DOMAIN Input = {"termMin", "termMax", "apr"}
    /\ DOMAIN Output = DOMAIN Input \cup OutputKeys
    /\ Output["termMin"] = Input["termMin"]
    /\ Output["apr"] = Input["apr"]

(***************************************************************************)
(* C8: in every returned record term_label is "{min} Months" exactly when  *)
(* term_range_min = term_range_max and "{min}-{max} Months" otherwise,     *)
(* with min and max the record's term_range_min and term_range_max.        *)
(***************************************************************************)
C8_TermLabel ==
    (RecordCall /\ Returned) =>
        LET lo == Output["term_range_min"]
            hi == Output["term_range_max"]
            single == ToString(lo) \o " Months"
            dashed == ToString(lo) \o "-" \o ToString(hi) \o " Months"
        IN  /\ (Output["term_label"] = single) <=> (lo = hi)
            /\ (lo /= hi) => Output["term_label"] = dashed
            /\ HasMonths(Input) => Output["term_label"] = single

C8_Witness ==
    /\ RecordCall
    /\ Returned
    /\ ~HasMonths(Input)
    /\ Input["termMin"] < Input["termMax"]
    /\ Output["term_range_min"] = Output["term_range_max"]
    /\ Output["term_label"]
         = ToString(Output["term_range_min"]) \o " Months"

(***************************************************************************)
(* C9: normalize_rate_terms never turns invalid term input into a result:  *)
(* a negative selected termMonths, an inverted selected range, or a        *)
(* selected range with a negative end raises the invalid-argument error    *)
(* and allocates no output record; a record without term fields raises the *)
(* missing-field error.  As amended: both errors are ValueError, the same  *)
(* exception type, and differ in their message only.                       *)
(***************************************************************************)
C9_InvalidInputRaises ==
    RecordCall =>
        /\ InvalidMonths(Input) => RaisedInvalidTerm(Input["termMonths"])
        /\ InvertedRange(Input)
              => RaisedInvalidRange(Input["termMin"], Input["termMax"])
        /\ NegativeRange(Input) => RaisedInvalidTerm(Input["termMin"])
        /\ (~HasMonths(Input) /\ ~HasRange(Input)) => RaisedMissingField

C9_SameTypeDistinctMessage ==
    /\ C9_InvalidInputRaises
    /\ (RecordCall /\ Raised)
          => /\ Len(heap) = 1
             /\ exc[1].type = "ValueError"
             /\ RaisedMissingField
                  <=> (~HasMonths(Input) /\ ~HasRange(Input))

C9_Witness ==
    /\ RecordCall
    /\ NegativeRange(Input)
    /\ Input["termMax"] >= 0
    /\ RaisedInvalidTerm(Input["termMin"])
    /\ Len(heap) = 1

\* the exception types under which invalid arguments are reported
InvalidArgumentTypes ==
    {InvalidTermError(MinTerm).type, InvalidRangeError(1, 0).type}

\* C9 as stated: besides the above, the missing-field error is of another
\* kind than the invalid-argument error
C9_DistinctErrorKinds ==
    /\ C9_InvalidInputRaises
    /\ (RecordCall /\ ~HasMonths(Input) /\ ~HasRange(Input))
          => (Raised /\ exc[1].type \notin InvalidArgumentTypes)

(***************************************************************************)
(* C10: for every t >= 0 get_term_normalization_info(t) returns            *)
(* original = t, normalized = the normalised t, distance = |t - normalized|*)
(* and wasModified true exactly when distance > 0, which is exactly when t *)
(* is not a standard term; is_standard_term(t) is true iff t is one of     *)
(* 36, 48, 60, 72, 84.                                                     *)
(***************************************************************************)
C10_NormalizationInfo ==
    /\ (fn = "get_term_normalization_info" /\ args[1] >= 0)
          => /\ Returned
             /\ DOMAIN ret[1]
                  = {"original", "normalized", "distance", "wasModified"}
             /\ ret[1].original = args[1]
             /\ ret[1].normalized = Nearest(args[1])
             /\ ret[1].distance = Dist(args[1], ret[1].normalized)
             /\ ret[1].distance >= 0
             /\ ret[1].wasModified <=> (ret[1].distance > 0)
             /\ ret[1].wasModified <=> ~is_standard_term(args[1])
    /\ (fn = "is_standard_term")
          => ret = <<args[1] \in StandardSet>>

C10_Witness ==
    /\ fn = "get_term_normalization_info"
    /\ Returned
    /\ args[1] > 0
    /\ args[1] < ret[1].normalized
    /\ ret[1].wasModified
    /\ ret[1].distance > 0

====
